---- MODULE Spec2Model ----
(***************************************************************************)
(* Order lifecycle and event distribution of the cafe robot service.       *)
(*                                                                         *)
(* The order router (src/unnamed/part_000) serves status transitions       *)
(* against the order table (src/unnamed/part_001) and announces them over  *)
(* Socket.IO (io.emit) and over the MQTT wrapper (src/mqtt-service.js).    *)
(*                                                                         *)
(* Node.js runs one handler segment at a time: the code between two awaits *)
(* is atomic, so every action below is one such segment.  A handler        *)
(* suspends on a store query (served in FIFO order by the single mysql     *)
(* connection) or on a broker publish (resumed by the publish callback).   *)
(***************************************************************************)
EXTENDS Integers, Sequences, FiniteSets, TLC

(* ------------------------------ bounds --------------------------------- *)
MaxOrders == 1
MaxRequests == 2
MaxItems == 2

OrderIds == 1..MaxOrders
\* two request handlers may be in flight at once; a slot is reused by the
\* next request once its response has been sent
Reqs == {"r1", "r2"}

(* ------------------------------ constants ------------------------------ *)
\* part_000:337
allowedStatuses == {"pending", "preparing", "ready", "delivered", "cancelled"}
\* part_000:538
allowedAutoStatuses == {"delivered"}
\* spec 4.2: delivered and cancelled are terminal
Terminal == {"delivered", "cancelled"}
\* request bodies: a status of the enum, an unknown one, or none ("")
StatusInputs == allowedStatuses \cup {"completed", ""}
\* body.orderId of the automated request; 0 stands for a missing orderId
AutoIdInputs == OrderIds \cup {0}
\* Socket.IO events emitted by the transition handlers
PushEvents == {"order_status_updated", "order_sent_ok", "order_sent_fail", "mqtt_warning"}

VARIABLES
    orders,       \* orders table: id -> stored status, "none" when no row
    isConnected,  \* MQTTService.isConnected as the router reads it
    req,          \* per request handler: its locals and what it emitted
    dbQueue,      \* queries queued on the mysql connection, oldest first
    started,      \* number of requests admitted so far
    stored,       \* orders table: id -> the row's items and totalPrice columns
    sub,          \* the POST /submit handler: its locals and what it emitted
    rawItems,     \* an item list handed to processOrderItems
    passes,       \* its successive consolidations
    itemTotal,    \* calculateTotalPrice of rawItems
    rows,         \* orders table as the listing queries see it: full rows by id
    lst,          \* the GET /all or GET /pending handler: its locals and outcome
    client,       \* MQTTService.client: number of the broker client, 0 for null
    links,        \* every broker client made by mqtt.connect: its link state
    reconnectAttempts, \* MQTTService.reconnectAttempts
    timers,       \* number of pending setTimeout callbacks of handleReconnection
    signalled,    \* maxReconnectAttemptsReached was emitted since the last connect event
    event,        \* what ran last in the wrapper
    effects,      \* what that run handed to the broker client and emitted
    closing,      \* where the call of disconnect() stands
    inits         \* number of init() calls since the last connect event

\* what the transition handlers never touch
orderVars == <<stored, sub>>
itemVars == <<rawItems, passes, itemTotal>>
storeVars == <<rows, lst>>
mqttVars == <<client, links, reconnectAttempts, timers, signalled, event, effects, closing, inits>>

vars == <<orders, isConnected, req, dbQueue, started, stored, sub, rawItems, passes, itemTotal,
          rows, lst, client, links, reconnectAttempts, timers, signalled, event, effects,
          closing, inits>>

\* a handler that has not been entered
Idle ==
    [kind |-> "none", orderId |-> 0, status |-> "", pc |-> "idle",
     oldStatus |-> "", updated |-> "", code |-> 0, robotNotified |-> FALSE,
     writes |-> 0, statusPub |-> "none", dispatch |-> "none",
     statusPubs |-> 0, dispatchPubs |-> 0,
     pushes |-> [e \in PushEvents |-> 0], announced |-> <<>>]

Emit(q, ev) == [q EXCEPT !.pushes[ev] = @ + 1]

Respond(q, c) == [q EXCEPT !.pc = "done", !.code = c]

(* ------------------------- JavaScript values --------------------------- *)
\* a request or column value that the code tests with typeof / Array.isArray:
\* an array, a JSON string (val is what JSON.parse gives back), any other
\* object, or undefined
Arr(s) == [type |-> "array", val |-> s]
Undefined == [type |-> "undefined", val |-> <<>>]
NotArray == [type |-> "object", val |-> <<>>]

\* JSON.stringify of an array of items whose fields are strings and integers;
\* JSON.parse gives the same array back
JSONstringify(s) == [type |-> "string", val |-> s]
JSONparse(v) == Arr(v.val)

\* item.f, with the falsy value d when the item has no such field
Field(item, f, d) == IF f \in DOMAIN item THEN item[f] ELSE d

\* stands for the label 'نامشخص' given to an item without name and title
Unnamed == "unnamed"

\* item.name || item.title || 'نامشخص'
ItemName(item) ==
    IF Field(item, "name", "") # "" THEN item.name
    ELSE IF Field(item, "title", "") # "" THEN item.title
    ELSE Unnamed

\* item.quantity || item.count || 1  (parseInt leaves an integer as it is)
ItemQuantity(item) ==
    IF Field(item, "quantity", 0) # 0 THEN item.quantity
    ELSE IF Field(item, "count", 0) # 0 THEN item.count
    ELSE 1

\* parseFloat(item.price || 0)
ItemPrice(item) == Field(item, "price", 0)

(* ------------------- item consolidation (db.js) ------------------------ *)
\* position of the line called name in the Map, 0 if there is none
LineOf(acc, name) ==
    IF \E i \in 1..Len(acc) : acc[i].name = name
    THEN CHOOSE i \in 1..Len(acc) : acc[i].name = name
    ELSE 0

\* variant: a repeated item adds its quantity but the line total is not redone
mergeItem_StaleLineTotal(acc, item) ==
    LET i == LineOf(acc, ItemName(item)) IN
    IF i # 0
    THEN [acc EXCEPT ![i] = [@ EXCEPT !.quantity = @ + ItemQuantity(item)]]
    ELSE Append(acc, [name |-> ItemName(item),
                      quantity |-> ItemQuantity(item),
                      price |-> ItemPrice(item),
                      totalItemPrice |-> ItemPrice(item) * ItemQuantity(item)])

\* lines 164-183: the forEach body; the Map keeps insertion order
mergeItem(acc, item) ==
    LET i == LineOf(acc, ItemName(item)) IN
    IF i # 0
    THEN [acc EXCEPT ![i] =
            [@ EXCEPT !.quantity = @ + ItemQuantity(item),
                      !.totalItemPrice = acc[i].price * (acc[i].quantity + ItemQuantity(item))]]
    ELSE Append(acc, [name |-> ItemName(item),
                      quantity |-> ItemQuantity(item),
                      price |-> ItemPrice(item),
                      totalItemPrice |-> ItemPrice(item) * ItemQuantity(item)])

RECURSIVE forEachItem(_, _)
forEachItem(rest, acc) ==
    IF rest = <<>> THEN acc
    ELSE forEachItem(Tail(rest), mergeItem(acc, Head(rest)))

\* lines 145-197: a string is parsed first; anything that is not an array
\* throws inside the try and the catch returns []
processOrderItems(items) ==
    LET parsedItems == IF items.type = "string" THEN JSONparse(items) ELSE items IN
    IF parsedItems.type # "array" THEN <<>>
    ELSE forEachItem(parsedItems.val, <<>>)

RECURSIVE reduceTotal(_, _)
reduceTotal(lines, total) ==
    IF lines = <<>> THEN total
    ELSE reduceTotal(Tail(lines), total + Head(lines).price * Head(lines).quantity)

\* lines 200-205
calculateTotalPrice(items) == reduceTotal(processOrderItems(items), 0)

\* variant: the total sent by the client is stored
createOrder_ClientTotal(orderData) ==
    [items |-> JSONstringify(processOrderItems(orderData.items)),
     totalPrice |-> orderData.totalPrice]

\* lines 208-239: the items and totalPrice columns of the inserted row (its
\* status column is 'pending')
createOrder(orderData) ==
    [items |-> JSONstringify(processOrderItems(orderData.items)),
     totalPrice |-> calculateTotalPrice(orderData.items)]

\* lines 494-520: the items and totalPrice columns after the UPDATE
updateOrderItems(newItems) ==
    [items |-> JSONstringify(processOrderItems(newItems)),
     totalPrice |-> reduceTotal(processOrderItems(newItems), 0)]

(* ------------------------------ inputs --------------------------------- *)
\* items as clients send them; title is read only when name is missing and
\* count only when quantity is missing (0 and "" stand for a missing field)
RawItems ==
    { [name |-> n[1], title |-> n[2], quantity |-> q[1], count |-> q[2], price |-> 2] :
        n \in {<<"Tea", "">>, <<"Cake", "">>, <<"", "">>, <<"", "Pie">>},
        q \in {<<1, 0>>, <<2, 0>>, <<-1, 0>>, <<0, 0>>, <<0, 3>>} }
    \cup
    { [name |-> "Tea", title |-> "", quantity |-> q, count |-> 0, price |-> p] :
        q \in {1, 2}, p \in {0, 3} }

SeqsUpTo(S, n) == UNION { [1..k -> S] : k \in 0..n }

\* the items of a submit body or of an amendment
BodyItems ==
    { i \in RawItems : /\ i.count = 0 /\ i.price = 2
                       /\ \/ i.name = "Tea" /\ i.quantity # 0
                          \/ i.name = "Cake" /\ i.quantity = 1 }
ItemInputs ==
    { Arr(s) : s \in SeqsUpTo(BodyItems, MaxItems) } \cup {NotArray, Undefined}
\* the newItems argument of updateOrderItems
NewItemInputs ==
    { Arr(s) : s \in SeqsUpTo({ i \in BodyItems : i.quantity = 1 }, MaxItems) } \cup {NotArray}
\* body.tableId (0 when absent) and body.totalPrice (0 when absent or zero)
TableInputs == {0, 7}
TotalInputs == {0, 5, 6}

\* the row columns of an order that was submitted as one Tea at 2
SampleRow == createOrder([items |-> JSONstringify(<<[name |-> "Tea", quantity |-> 1, price |-> 2]>>), totalPrice |-> 2])
NoRow == [items |-> JSONstringify(<<>>), totalPrice |-> 0]

\* the submit handler before entry
IdleSubmit ==
    [pc |-> "idle", body |-> [tableId |-> 0, items |-> Undefined, totalPrice |-> 0],
     processedItems |-> <<>>, orderId |-> 0, code |-> 0,
     newOrderPub |-> "none", newOrderPubs |-> 0, newOrderPushes |-> 0,
     response |-> [items |-> <<>>, totalPrice |-> 0, status |-> ""]]

\* the listing handler before entry
IdleList ==
    [kind |-> "none", pc |-> "idle", result |-> <<>>, pub |-> "none", pubs |-> 0,
     code |-> 0, orders |-> <<>>]

\* no listing in progress on an empty table
StoreIdle ==
    /\ rows = <<>>
    /\ lst = IdleList

\* mqtt-service.js 5-64, 66-94: the wrapper as its constructor leaves it
Constructed ==
    /\ client = 1
    /\ links = <<"connecting">>
    /\ reconnectAttempts = 0
    /\ timers = 0
    /\ signalled = FALSE
    /\ event = "init"
    /\ effects = <<>>
    /\ closing = "none"
    /\ inits = 1

Init ==
    /\ orders \in [OrderIds -> {"none", "pending"}]
    /\ isConnected \in BOOLEAN
    /\ req = [r \in Reqs |-> Idle]
    /\ dbQueue = <<>>
    /\ started = 0
    /\ stored = [o \in OrderIds |-> IF orders[o] = "none" THEN NoRow ELSE SampleRow]
    /\ sub = IdleSubmit
    /\ rawItems = <<>>
    /\ passes = <<>>
    /\ itemTotal = 0
    /\ StoreIdle
    /\ Constructed


(* ------------------------- order table (db.js) ------------------------- *)
\* SELECT * FROM orders WHERE id = ?  -> the row's status, "none" for no row
getOrderById(tbl, id) == IF id \in DOMAIN tbl THEN tbl[id] ELSE "none"

\* variant: the UPDATE skips rows whose status is delivered or cancelled
updateOrderStatus_GuardTerminal(tbl, id, newStatus) ==
    IF id \in DOMAIN tbl /\ tbl[id] \notin {"none", "delivered", "cancelled"}
    THEN [tbl EXCEPT ![id] = newStatus]
    ELSE tbl

\* UPDATE orders SET status = ? WHERE id = ?  (no row: nothing changes)
updateOrderStatus(tbl, id, newStatus) ==
    IF id \in DOMAIN tbl /\ tbl[id] # "none"
    THEN [tbl EXCEPT ![id] = newStatus]
    ELSE tbl

(* ------------------- PUT /:orderId/status, by segment ------------------ *)
\* variant: robotNotified reported from the target alone
PutStatus_Respond_TargetOnly(q) ==
    [Emit(q, "order_status_updated") EXCEPT
        !.pc = "done", !.code = 200,
        !.announced = <<q.oldStatus, q.status>>,
        !.robotNotified = (q.status = "ready")]

\* lines 429-447: the order_status_updated push and the response
PutStatus_Respond(q) ==
    [Emit(q, "order_status_updated") EXCEPT
        !.pc = "done", !.code = 200,
        !.announced = <<q.oldStatus, q.status>>,
        !.robotNotified = (q.status = "ready" /\ isConnected)]

\* variant: a failed dispatch is logged but not pushed to the dashboards
PutStatus_Dispatched_Silent(q, err) ==
    IF err
    THEN PutStatus_Respond([q EXCEPT !.dispatch = "err"])
    ELSE PutStatus_Respond(Emit([q EXCEPT !.dispatch = "ok"], "order_sent_ok"))

\* lines 391-416: sendOrderToRobot settled, push its outcome, then respond
PutStatus_Dispatched(q, err) ==
    IF err
    THEN PutStatus_Respond(Emit([q EXCEPT !.dispatch = "err"], "order_sent_fail"))
    ELSE PutStatus_Respond(Emit([q EXCEPT !.dispatch = "ok"], "order_sent_ok"))

\* variant: an order that was already 'ready' is not dispatched again
PutStatus_Dispatch_Dedup(q) ==
    IF q.status = "ready" /\ q.oldStatus # "ready" /\ isConnected
    THEN [q EXCEPT !.pc = "dispatch", !.dispatch = "sent", !.dispatchPubs = @ + 1]
    ELSE IF q.status = "ready" /\ ~isConnected
    THEN PutStatus_Respond(Emit(q, "mqtt_warning"))
    ELSE PutStatus_Respond(q)

\* lines 372-427: dispatch to the robot only for target 'ready'
PutStatus_Dispatch(q) ==
    IF q.status = "ready" /\ isConnected
    THEN [q EXCEPT !.pc = "dispatch", !.dispatch = "sent", !.dispatchPubs = @ + 1]
    ELSE IF q.status = "ready" /\ ~isConnected
    THEN PutStatus_Respond(Emit(q, "mqtt_warning"))
    ELSE PutStatus_Respond(q)

\* variant: the rejection of publishOrderStatusUpdate reaches the outer catch
PutStatus_Published_Uncaught(q, err) ==
    IF err THEN Respond([q EXCEPT !.statusPub = "err"], 500)
    ELSE PutStatus_Dispatch([q EXCEPT !.statusPub = "ok"])

\* lines 365-370: publishOrderStatusUpdate settled; a rejection is caught
PutStatus_Published(q, err) ==
    PutStatus_Dispatch([q EXCEPT !.statusPub = IF err THEN "err" ELSE "ok"])

\* lines 360-365: updatedOrder read back, status publish if connected
PutStatus_Reloaded(q, err, row) ==
    IF err THEN Respond(q, 500)
    ELSE LET q1 == [q EXCEPT !.updated = row] IN
         IF isConnected
         THEN [q1 EXCEPT !.pc = "statusPub", !.statusPub = "sent", !.statusPubs = @ + 1]
         ELSE PutStatus_Dispatch(q1)

\* variant: the rejection of updateOrderStatus is swallowed
PutStatus_Written_Swallow(q, err) ==
    [q EXCEPT !.writes = IF err THEN @ ELSE @ + 1, !.pc = "get2"]

\* lines 355-360: updateOrderStatus settled; a rejection goes to the catch
PutStatus_Written(q, err) ==
    IF err THEN Respond(q, 500)
    ELSE [q EXCEPT !.writes = @ + 1, !.pc = "get2"]

\* variant: the status change is pushed before the store write
PutStatus_Found_EarlyPush(q, err, row) ==
    IF err THEN Respond(q, 500)
    ELSE IF row = "none" THEN Respond(q, 404)
    ELSE [Emit(q, "order_status_updated") EXCEPT !.oldStatus = row, !.pc = "write"]

\* lines 346-355: existence check, oldStatus, then the store write
PutStatus_Found(q, err, row) ==
    IF err THEN Respond(q, 500)
    ELSE IF row = "none" THEN Respond(q, 404)
    ELSE [q EXCEPT !.oldStatus = row, !.pc = "write"]

\* variant: only the presence of a status is checked
PutStatus_Enter_NoEnumCheck(id, st) ==
    LET q == [Idle EXCEPT !.kind = "put", !.orderId = id, !.status = st] IN
    IF st = "" THEN Respond(q, 400)
    ELSE [q EXCEPT !.pc = "get1"]

\* lines 326-346: body validation before the first store call
PutStatus_Enter(id, st) ==
    LET q == [Idle EXCEPT !.kind = "put", !.orderId = id, !.status = st] IN
    IF st = "" THEN Respond(q, 400)
    ELSE IF st \notin allowedStatuses THEN Respond(q, 400)
    ELSE [q EXCEPT !.pc = "get1"]

(* ---------------------- DELETE /:orderId, by segment ------------------- *)
\* lines 487-502
Delete_Respond(q) ==
    [Emit(q, "order_status_updated") EXCEPT
        !.pc = "done", !.code = 200,
        !.announced = <<q.oldStatus, "cancelled">>]

\* lines 480-485
Delete_Published(q, err) ==
    Delete_Respond([q EXCEPT !.statusPub = IF err THEN "err" ELSE "ok"])

\* lines 475-480
Delete_Written(q, err) ==
    IF err THEN Respond(q, 500)
    ELSE LET q1 == [q EXCEPT !.writes = @ + 1] IN
         IF isConnected
         THEN [q1 EXCEPT !.pc = "statusPub", !.statusPub = "sent", !.statusPubs = @ + 1]
         ELSE Delete_Respond(q1)

\* variant: the existence check is missing
Delete_Found_NoCheck(q, err, row) ==
    IF err THEN Respond(q, 500)
    ELSE [q EXCEPT !.oldStatus = row, !.pc = "write"]

\* lines 467-475
Delete_Found(q, err, row) ==
    IF err THEN Respond(q, 500)
    ELSE IF row = "none" THEN Respond(q, 404)
    ELSE [q EXCEPT !.oldStatus = row, !.pc = "write"]

\* lines 464-467
Delete_Enter(id) ==
    [Idle EXCEPT !.kind = "delete", !.orderId = id, !.status = "cancelled", !.pc = "get1"]

(* ------------------- POST /auto-update-status, by segment -------------- *)
\* lines 551-569
AutoUpdate_Respond(q) ==
    [Emit(q, "order_status_updated") EXCEPT
        !.pc = "done", !.code = 200,
        !.announced = <<q.oldStatus, q.status>>]

\* lines 547-551
AutoUpdate_Written(q, err) ==
    IF err THEN Respond(q, 500)
    ELSE AutoUpdate_Respond([q EXCEPT !.writes = @ + 1])

\* variant: the allow-list check admits every status of the enum
AutoUpdate_Found_AnyStatus(q, err, row) ==
    IF err THEN Respond(q, 500)
    ELSE IF row = "none" THEN Respond(q, 404)
    ELSE IF q.status \notin allowedStatuses THEN Respond(q, 400)
    ELSE [q EXCEPT !.oldStatus = row, !.pc = "write"]

\* lines 529-547: existence check, then the allow-list of automated targets
AutoUpdate_Found(q, err, row) ==
    IF err THEN Respond(q, 500)
    ELSE IF row = "none" THEN Respond(q, 404)
    ELSE IF q.status \notin allowedAutoStatuses THEN Respond(q, 400)
    ELSE [q EXCEPT !.oldStatus = row, !.pc = "write"]

\* lines 519-529
AutoUpdate_Enter(id, st) ==
    LET q == [Idle EXCEPT !.kind = "auto", !.orderId = id, !.status = st] IN
    IF id = 0 \/ st = "" THEN Respond(q, 400)
    ELSE [q EXCEPT !.pc = "get1"]

(* ------------------------------ actions -------------------------------- *)
Free(r) == req[r].pc \in {"idle", "done"}

\* the handler's first segment queues its first query unless it returned
Enqueue(r, q) == IF q.pc = "get1" THEN Append(dbQueue, r) ELSE dbQueue

PutStatus(r) ==
    /\ Free(r)
    /\ started < MaxRequests
    /\ \E id \in OrderIds, st \in StatusInputs :
        /\ req' = [req EXCEPT ![r] = PutStatus_Enter(id, st)]
        /\ dbQueue' = Enqueue(r, PutStatus_Enter(id, st))
    /\ started' = started + 1
    /\ UNCHANGED <<orders, isConnected>>
    /\ UNCHANGED <<orderVars, itemVars, storeVars, mqttVars>>

DeleteOrder(r) ==
    /\ Free(r)
    /\ started < MaxRequests
    /\ \E id \in OrderIds :
        /\ req' = [req EXCEPT ![r] = Delete_Enter(id)]
        /\ dbQueue' = Enqueue(r, Delete_Enter(id))
    /\ started' = started + 1
    /\ UNCHANGED <<orders, isConnected>>
    /\ UNCHANGED <<orderVars, itemVars, storeVars, mqttVars>>

AutoUpdateStatus(r) ==
    /\ Free(r)
    /\ started < MaxRequests
    /\ \E id \in AutoIdInputs, st \in StatusInputs :
        /\ req' = [req EXCEPT ![r] = AutoUpdate_Enter(id, st)]
        /\ dbQueue' = Enqueue(r, AutoUpdate_Enter(id, st))
    /\ started' = started + 1
    /\ UNCHANGED <<orders, isConnected>>
    /\ UNCHANGED <<orderVars, itemVars, storeVars, mqttVars>>

\* the handler's next query, if it has one, goes to the back of the queue
Requeue(r, q) ==
    IF q.pc \in {"get1", "write", "get2"} THEN Append(Tail(dbQueue), r) ELSE Tail(dbQueue)

\* callback of the getOrderById that opens every transition handler
LookupCallback ==
    /\ dbQueue # <<>>
    /\ req[Head(dbQueue)].pc = "get1"
    /\ \E err \in BOOLEAN :
        LET r == Head(dbQueue)
            q == req[r]
            row == getOrderById(orders, q.orderId)
            q2 == CASE q.kind = "put" -> PutStatus_Found(q, err, row)
                    [] q.kind = "delete" -> Delete_Found(q, err, row)
                    [] OTHER -> AutoUpdate_Found(q, err, row)
        IN /\ req' = [req EXCEPT ![r] = q2]
           /\ dbQueue' = Requeue(r, q2)
    /\ UNCHANGED <<orders, isConnected, started>>
    /\ UNCHANGED <<orderVars, itemVars, storeVars, mqttVars>>

\* the UPDATE runs on the table, then updateOrderStatus's callback resumes
UpdateCallback ==
    /\ dbQueue # <<>>
    /\ req[Head(dbQueue)].pc = "write"
    /\ \E err \in BOOLEAN :
        LET r == Head(dbQueue)
            q == req[r]
            q2 == CASE q.kind = "put" -> PutStatus_Written(q, err)
                    [] q.kind = "delete" -> Delete_Written(q, err)
                    [] OTHER -> AutoUpdate_Written(q, err)
        IN /\ orders' = IF err THEN orders
                        ELSE updateOrderStatus(orders, q.orderId, q.status)
           /\ req' = [req EXCEPT ![r] = q2]
           /\ dbQueue' = Requeue(r, q2)
    /\ UNCHANGED <<isConnected, started>>
    /\ UNCHANGED <<orderVars, itemVars, storeVars, mqttVars>>

\* callback of the getOrderById that reads updatedOrder (PUT only)
ReloadCallback ==
    /\ dbQueue # <<>>
    /\ req[Head(dbQueue)].pc = "get2"
    /\ \E err \in BOOLEAN :
        LET r == Head(dbQueue)
            q == req[r]
            q2 == PutStatus_Reloaded(q, err, getOrderById(orders, q.orderId))
        IN /\ req' = [req EXCEPT ![r] = q2]
           /\ dbQueue' = Requeue(r, q2)
    /\ UNCHANGED <<orders, isConnected, started>>
    /\ UNCHANGED <<orderVars, itemVars, storeVars, mqttVars>>

\* client.publish's callback: the broker acknowledged, or the publish failed
PublishCallback(r) ==
    /\ req[r].pc \in {"statusPub", "dispatch"}
    /\ \E err \in BOOLEAN :
        LET q == req[r] IN
        req' = [req EXCEPT ![r] =
                  IF q.pc = "dispatch" THEN PutStatus_Dispatched(q, err)
                  ELSE IF q.kind = "put" THEN PutStatus_Published(q, err)
                  ELSE Delete_Published(q, err)]
    /\ UNCHANGED <<orders, isConnected, dbQueue, started>>
    /\ UNCHANGED <<orderVars, itemVars, storeVars, mqttVars>>

\* client 'connect' event: isConnected = true
TransportConnect ==
    /\ ~isConnected
    /\ isConnected' = TRUE
    /\ UNCHANGED <<orders, req, dbQueue, started>>
    /\ UNCHANGED <<orderVars, itemVars, storeVars, mqttVars>>

\* client 'error' / 'close' / 'offline' event: isConnected = false
TransportDrop ==
    /\ isConnected
    /\ isConnected' = FALSE
    /\ UNCHANGED <<orders, req, dbQueue, started>>
    /\ UNCHANGED <<orderVars, itemVars, storeVars, mqttVars>>

Next ==
    \/ \E r \in Reqs : PutStatus(r)
    \/ \E r \in Reqs : DeleteOrder(r)
    \/ \E r \in Reqs : AutoUpdateStatus(r)
    \/ LookupCallback
    \/ UpdateCallback
    \/ ReloadCallback
    \/ \E r \in Reqs : PublishCallback(r)
    \/ TransportConnect
    \/ TransportDrop

Spec == Init /\ [][Next]_vars

\* the event loop runs every callback that is ready and the store answers
\* every query; nothing makes the broker acknowledge a publish
FairSpec ==
    /\ Spec
    /\ WF_vars(LookupCallback)
    /\ WF_vars(UpdateCallback)
    /\ WF_vars(ReloadCallback)


(* --------------------------- POST /submit ------------------------------ *)
\* lines 26-42
validateOrderData(data) ==
    IF data.tableId = 0 THEN FALSE
    ELSE IF data.items.type # "array" \/ data.items.val = <<>> THEN FALSE
    ELSE IF data.totalPrice = 0 \/ data.totalPrice <= 0 THEN FALSE
    ELSE TRUE

\* lines 78-82: the handler's own mapping of the body items
mapItem(item) ==
    [name |-> ItemName(item), quantity |-> ItemQuantity(item), price |-> ItemPrice(item)]

\* lines 117-139: the new_order_created push and the 201 response, whose
\* orderData carries the mapped items and the total of the body
Submit_Respond(q) ==
    [q EXCEPT !.pc = "done", !.code = 201, !.newOrderPushes = @ + 1,
              !.response = [items |-> q.processedItems,
                            totalPrice |-> q.body.totalPrice,
                            status |-> "pending"]]

\* variant: the rejection of publishNewOrder reaches the outer catch
Submit_Published_Uncaught(q, err) ==
    IF err THEN [q EXCEPT !.newOrderPub = "err", !.pc = "done", !.code = 500]
    ELSE Submit_Respond([q EXCEPT !.newOrderPub = "ok"])

\* lines 110-115: publishNewOrder settled; a rejection is caught
Submit_Published(q, err) ==
    Submit_Respond([q EXCEPT !.newOrderPub = IF err THEN "err" ELSE "ok"])

\* lines 105-110: fullOrder read back, new-order publish if connected
Submit_Fetched(q, err) ==
    IF err THEN [q EXCEPT !.pc = "done", !.code = 500]
    ELSE IF isConnected
    THEN [q EXCEPT !.pc = "publish", !.newOrderPub = "sent", !.newOrderPubs = @ + 1]
    ELSE Submit_Respond(q)

\* lines 100-105: createOrder settled with the insert id
Submit_Created(q, err, insertId) ==
    IF err THEN [q EXCEPT !.pc = "done", !.code = 500]
    ELSE [q EXCEPT !.orderId = insertId, !.pc = "fetch"]

\* lines 63-100: validation, item mapping, then the insert
Submit_Enter(body) ==
    LET q == [IdleSubmit EXCEPT !.body = body] IN
    IF ~validateOrderData(body) THEN [q EXCEPT !.pc = "done", !.code = 400]
    ELSE [q EXCEPT !.processedItems = [i \in 1..Len(body.items.val) |-> mapItem(body.items.val[i])],
                   !.pc = "create"]

\* the auto-increment id of the next inserted row
NextId == Cardinality({o \in OrderIds : orders[o] # "none"}) + 1

routerVars == <<req, dbQueue, started>>

SubmitOrder ==
    /\ sub.pc \in {"idle", "done"}
    /\ NextId \in OrderIds
    /\ \E t \in TableInputs, its \in ItemInputs, p \in TotalInputs :
        sub' = Submit_Enter([tableId |-> t, items |-> its, totalPrice |-> p])
    /\ UNCHANGED <<orders, stored, isConnected, routerVars, itemVars, storeVars, mqttVars>>

\* the INSERT runs on the table, then createOrder's callback resumes
CreateCallback ==
    /\ sub.pc = "create"
    /\ \E err \in BOOLEAN :
        /\ sub' = Submit_Created(sub, err, NextId)
        /\ IF err THEN UNCHANGED <<orders, stored>>
           ELSE /\ orders' = [orders EXCEPT ![NextId] = "pending"]
                /\ stored' = [stored EXCEPT ![NextId] =
                                createOrder([items |-> JSONstringify(sub.processedItems),
                                             totalPrice |-> sub.body.totalPrice])]
    /\ UNCHANGED <<isConnected, routerVars, itemVars, storeVars, mqttVars>>

\* callback of the getOrderById that reads fullOrder
FetchCallback ==
    /\ sub.pc = "fetch"
    /\ \E err \in BOOLEAN : sub' = Submit_Fetched(sub, err)
    /\ UNCHANGED <<orders, stored, isConnected, routerVars, itemVars, storeVars, mqttVars>>

\* client.publish's callback for the publish to /cafe/orders/new
NewOrderPublishCallback ==
    /\ sub.pc = "publish"
    /\ \E err \in BOOLEAN : sub' = Submit_Published(sub, err)
    /\ UNCHANGED <<orders, stored, isConnected, routerVars, itemVars, storeVars, mqttVars>>

\* db.updateOrderItems(orderId, newItems) on a stored order
UpdateOrderItems ==
    /\ \E o \in OrderIds, newItems \in NewItemInputs, err \in BOOLEAN :
        /\ orders[o] # "none"
        /\ stored' = IF err THEN stored
                     ELSE [stored EXCEPT ![o] = updateOrderItems(newItems)]
    /\ UNCHANGED <<orders, sub, isConnected, routerVars, itemVars, storeVars, mqttVars>>

OrderInit ==
    /\ orders = [o \in OrderIds |-> "none"]
    /\ stored = [o \in OrderIds |-> NoRow]
    /\ isConnected \in BOOLEAN
    /\ sub = IdleSubmit
    /\ req = [r \in Reqs |-> Idle]
    /\ dbQueue = <<>>
    /\ started = 0
    /\ rawItems = <<>>
    /\ passes = <<>>
    /\ itemTotal = 0
    /\ StoreIdle
    /\ Constructed

OrderNext ==
    \/ SubmitOrder
    \/ CreateCallback
    \/ FetchCallback
    \/ NewOrderPublishCallback
    \/ UpdateOrderItems
    \/ TransportConnect
    \/ TransportDrop

OrderSpec == OrderInit /\ [][OrderNext]_vars

(* ------------------- processOrderItems on its own ---------------------- *)
ItemInit ==
    /\ rawItems \in { Arr(s) : s \in SeqsUpTo(RawItems, MaxItems) }
                    \cup { JSONstringify(s) : s \in SeqsUpTo(RawItems, MaxItems) }
                    \cup {NotArray}
    /\ passes = <<>>
    /\ itemTotal = 0
    /\ orders = [o \in OrderIds |-> "none"]
    /\ stored = [o \in OrderIds |-> NoRow]
    /\ isConnected = FALSE
    /\ sub = IdleSubmit
    /\ req = [r \in Reqs |-> Idle]
    /\ dbQueue = <<>>
    /\ started = 0
    /\ StoreIdle
    /\ Constructed

\* processOrderItems(items) and calculateTotalPrice(items)
Consolidate ==
    /\ passes = <<>>
    /\ passes' = <<processOrderItems(rawItems)>>
    /\ itemTotal' = calculateTotalPrice(rawItems)
    /\ UNCHANGED <<rawItems, orders, isConnected, routerVars, orderVars, storeVars, mqttVars>>

\* processOrderItems applied to its own result
Reconsolidate ==
    /\ Len(passes) = 1
    /\ passes' = Append(passes, processOrderItems(Arr(passes[1])))
    /\ UNCHANGED <<rawItems, itemTotal, orders, isConnected, routerVars, orderVars, storeVars, mqttVars>>

ItemNext == Consolidate \/ Reconsolidate

ItemSpec == ItemInit /\ [][ItemNext]_vars

(* ---------------- the orders table and its listings -------------------- *)
\* rows the table may hold at once
MaxRows == 2
RowIds == 1..MaxRows

\* what no store operation and no listing touches
nonStoreVars == <<orders, routerVars, orderVars, itemVars, mqttVars>>

\* statuses the routes write with updateOrderStatus, and the legacy 'completed'
NewStatusInputs == {"ready", "delivered", "cancelled", "completed"}
\* orderData.items as the submit route hands it to createOrder: one Tea
RowItemInputs ==
    { JSONstringify(<<i>>) : i \in { b \in BodyItems : b.name = "Tea" /\ b.quantity = 1 } }
\* newItems of an amendment: one Cake, or two Tea and one Cake
NewRowItemInputs ==
    { Arr(<<c>>) : c \in { b \in BodyItems : b.name = "Cake" } }
    \cup { Arr(<<t, c>>) : t \in { b \in BodyItems : b.name = "Tea" /\ b.quantity = 2 },
                            c \in { b \in BodyItems : b.name = "Cake" } }

\* variant: the row is inserted with the status 'confirmed'
createOrderRow_Confirmed(tbl, orderData, now) ==
    Append(tbl, [id |-> Len(tbl) + 1,
                 tableId |-> orderData.tableId,
                 status |-> "confirmed",
                 items |-> createOrder(orderData).items,
                 totalPrice |-> createOrder(orderData).totalPrice,
                 created_at |-> now])

\* part_001:219-226: INSERT INTO orders (...) VALUES (?, ?, ?, ?, ?, 'pending',
\* NOW(), NOW()); the id is the auto-increment key
createOrderRow(tbl, orderData, now) ==
    Append(tbl, [id |-> Len(tbl) + 1,
                 tableId |-> orderData.tableId,
                 status |-> "pending",
                 items |-> createOrder(orderData).items,
                 totalPrice |-> createOrder(orderData).totalPrice,
                 created_at |-> now])

\* variant: the UPDATE also resets the items of the row
updateStatusRow_ClearItems(tbl, id, newStatus) ==
    [i \in 1..Len(tbl) |->
        IF tbl[i].id = id
        THEN [tbl[i] EXCEPT !.status = newStatus, !.items = JSONstringify(<<>>)]
        ELSE tbl[i]]

\* part_001:408-412: UPDATE orders SET status = ?, updated_at = NOW() WHERE id = ?
updateStatusRow(tbl, id, newStatus) ==
    [i \in 1..Len(tbl) |->
        IF tbl[i].id = id THEN [tbl[i] EXCEPT !.status = newStatus] ELSE tbl[i]]

\* part_001:496-508: UPDATE orders SET items = ?, totalPrice = ?, updated_at =
\* NOW() WHERE id = ?
updateItemsRow(tbl, id, newItems) ==
    [i \in 1..Len(tbl) |->
        IF tbl[i].id = id
        THEN [tbl[i] EXCEPT !.items = updateOrderItems(newItems).items,
                            !.totalPrice = updateOrderItems(newItems).totalPrice]
        ELSE tbl[i]]

\* part_001:376-379: SELECT * FROM orders WHERE id = ?  (the matching rows)
selectById(tbl, id) == { i \in 1..Len(tbl) : tbl[i].id = id }

\* every order of the rows numbered ids that ORDER BY created_at allows; rows
\* created in the same second come in any order
OrderedBy(tbl, ids, asc) ==
    { s \in [1..Cardinality(ids) -> ids] :
        /\ \A i, j \in DOMAIN s : i # j => s[i] # s[j]
        /\ \A i, j \in DOMAIN s :
              i < j => IF asc THEN tbl[s[i]].created_at <= tbl[s[j]].created_at
                       ELSE tbl[s[i]].created_at >= tbl[s[j]].created_at }

\* a listed order, named by its id
Listed(row) == row.id

\* part_001:242-272: SELECT * FROM orders ORDER BY created_at DESC
getAllOrders(tbl) ==
    { [k \in DOMAIN s |-> Listed(tbl[s[k]])] : s \in OrderedBy(tbl, 1..Len(tbl), FALSE) }

\* variant: delivered orders are not filtered out
getPendingOrders_KeepDelivered(tbl) ==
    { [k \in DOMAIN s |-> Listed(tbl[s[k]])] :
        s \in OrderedBy(tbl, { i \in 1..Len(tbl) :
                                 tbl[i].status \notin {"completed", "cancelled"} }, TRUE) }

\* part_001:275-305: SELECT * FROM orders WHERE status NOT IN ('completed',
\* 'cancelled', 'delivered') ORDER BY created_at ASC
getPendingOrders(tbl) ==
    { [k \in DOMAIN s |-> Listed(tbl[s[k]])] :
        s \in OrderedBy(tbl, { i \in 1..Len(tbl) :
                                 tbl[i].status \notin {"completed", "cancelled", "delivered"} }, TRUE) }

\* part_000:185-189, 247-251: res.json({success: true, count, orders})
List_Respond(q) == [q EXCEPT !.pc = "done", !.code = 200, !.orders = q.result]

\* variant: a failed publish fails the request
List_Published_Uncaught(q, err) ==
    IF err THEN [q EXCEPT !.pub = "err", !.pc = "done", !.code = 500]
    ELSE List_Respond([q EXCEPT !.pub = "ok"])

\* part_000:175-181, 237-243: the publish settled; a rejection is caught
List_Published(q, err) ==
    List_Respond([q EXCEPT !.pub = IF err THEN "err" ELSE "ok"])

\* part_000:169-176, 231-238: the query settled; the collection is published
\* if the transport is connected; a store error goes to the catch (500)
List_Queried(q, err, res) ==
    IF err THEN [q EXCEPT !.pc = "done", !.code = 500]
    ELSE IF isConnected
    THEN [q EXCEPT !.result = res, !.pc = "publish", !.pub = "sent", !.pubs = @ + 1]
    ELSE List_Respond([q EXCEPT !.result = res])

\* part_000:165-169, 227-231: the handler starts its query
List_Enter(kind) == [IdleList EXCEPT !.kind = kind, !.pc = "query"]

\* GET /all or GET /pending arrives
ListOrders ==
    /\ lst.pc \in {"idle", "done"}
    /\ \E kind \in {"all", "pending"} : lst' = List_Enter(kind)
    /\ UNCHANGED <<rows, isConnected, nonStoreVars>>

\* the SELECT runs on the table, then the query callback resumes the handler
ListCallback ==
    /\ lst.pc = "query"
    /\ \E err \in BOOLEAN :
        \E res \in (IF lst.kind = "all" THEN getAllOrders(rows) ELSE getPendingOrders(rows)) :
            lst' = List_Queried(lst, err, res)
    /\ UNCHANGED <<rows, isConnected, nonStoreVars>>

\* publishAllOrders / publishPendingOrders resolves or rejects
ListPublishCallback ==
    /\ lst.pc = "publish"
    /\ \E err \in BOOLEAN : lst' = List_Published(lst, err)
    /\ UNCHANGED <<rows, isConnected, nonStoreVars>>

\* NOW() of the next insert: the second of the newest row or a later one
Now(tbl) == IF tbl = <<>> THEN {1} ELSE {tbl[Len(tbl)].created_at, tbl[Len(tbl)].created_at + 1}

\* db.createOrder: the INSERT and its callback
InsertOrder ==
    /\ Len(rows) < MaxRows
    /\ \E its \in RowItemInputs, now \in Now(rows), err \in BOOLEAN :
        rows' = IF err THEN rows
                ELSE createOrderRow(rows, [tableId |-> 7, items |-> its, totalPrice |-> 5], now)
    /\ UNCHANGED <<lst, isConnected, nonStoreVars>>

\* db.updateOrderStatus: the UPDATE and its callback
UpdateStatus ==
    /\ \E id \in RowIds, newStatus \in NewStatusInputs, err \in BOOLEAN :
        rows' = IF err THEN rows ELSE updateStatusRow(rows, id, newStatus)
    /\ UNCHANGED <<lst, isConnected, nonStoreVars>>

\* db.updateOrderItems: the UPDATE and its callback
UpdateItems ==
    /\ \E id \in RowIds, newItems \in NewRowItemInputs, err \in BOOLEAN :
        rows' = IF err THEN rows ELSE updateItemsRow(rows, id, newItems)
    /\ UNCHANGED <<lst, isConnected, nonStoreVars>>

StoreInit ==
    /\ StoreIdle
    /\ isConnected \in BOOLEAN
    /\ orders = [o \in OrderIds |-> "none"]
    /\ stored = [o \in OrderIds |-> NoRow]
    /\ sub = IdleSubmit
    /\ req = [r \in Reqs |-> Idle]
    /\ dbQueue = <<>>
    /\ started = 0
    /\ rawItems = <<>>
    /\ passes = <<>>
    /\ itemTotal = 0
    /\ Constructed

\* the writes of db.js on the orders table
StoreNext ==
    \/ InsertOrder
    \/ UpdateStatus
    \/ UpdateItems

StoreSpec == StoreInit /\ [][StoreNext]_vars

\* the listing routes while orders are created and their status changes
ListNext ==
    \/ InsertOrder
    \/ UpdateStatus
    \/ ListOrders
    \/ ListCallback
    \/ ListPublishCallback
    \/ TransportConnect
    \/ TransportDrop

ListSpec == StoreInit /\ [][ListNext]_vars

(* -------------------- MQTTService (mqtt-service.js) -------------------- *)
\* broker clients mqtt.connect may have made, timers that may be pending
MaxClients == 2
MaxTimers == 10
\* line 10
maxReconnectAttempts == 10
\* line 454
delayStep == 5000
delayCeiling == 30000

\* what the wrapper's events and calls never touch
nonMqttVars == <<orders, routerVars, orderVars, itemVars, storeVars>>

\* lines 214-232
topicsToSubscribe ==
    <<"/cafe/robot/status", "/cafe/robot/location", "/cafe/robot/feedback",
      "/cafe/delivery/complete", "/cafe/delivery/status", "/cafe/kitchen/status",
      "/cafe/emergency", "/odom", "/move_base/result",
      "/cafe/robot/+", "/cafe/orders/+", "/cafe/system/+">>

\* payloads that callers of publish hand over
Msgs == {"order"}

\* the fields of the wrapper at the start of a run of one of its callbacks;
\* effects collects what the run hands to the broker client and emits
Wrapper ==
    [isConnected |-> isConnected, reconnectAttempts |-> reconnectAttempts,
     timers |-> timers, signalled |-> signalled, client |-> client, links |-> links,
     inits |-> inits, effects |-> <<>>]

\* this.emit(ev)
emit(w, ev) ==
    [w EXCEPT !.effects = Append(@, [op |-> "emit", to |-> 0, what |-> ev, retain |-> FALSE, ms |-> 0])]

Min(a, b) == IF a <= b THEN a ELSE b

\* setTimeout(callback, delay) for attempt n
setTimeout(w, n, delay) ==
    [w EXCEPT !.timers = @ + 1,
              !.effects = Append(@, [op |-> "setTimeout", to |-> n, what |-> "init",
                                     retain |-> FALSE, ms |-> delay])]

\* variant: the delay keeps growing with the attempt count
handleReconnection_NoCeiling(w) ==
    IF w.reconnectAttempts < maxReconnectAttempts
    THEN setTimeout([w EXCEPT !.reconnectAttempts = @ + 1],
                    w.reconnectAttempts + 1,
                    delayStep * (w.reconnectAttempts + 1))
    ELSE [emit(w, "maxReconnectAttemptsReached") EXCEPT !.signalled = TRUE]

\* lines 451-467: below the cap count the attempt and set a timer, else emit
\* the terminal signal
handleReconnection(w) ==
    IF w.reconnectAttempts < maxReconnectAttempts
    THEN setTimeout([w EXCEPT !.reconnectAttempts = @ + 1],
                    w.reconnectAttempts + 1,
                    Min(delayStep * (w.reconnectAttempts + 1), delayCeiling))
    ELSE [emit(w, "maxReconnectAttemptsReached") EXCEPT !.signalled = TRUE]

\* lines 66-100: mqtt.connect makes a new client, which this.client then names;
\* if it throws the catch calls handleReconnection
init(w, threw) ==
    LET w1 == [w EXCEPT !.inits = @ + 1] IN
    IF threw THEN handleReconnection(w1)
    ELSE [w1 EXCEPT !.links = Append(@, "connecting"), !.client = Len(w.links) + 1]

\* variant: the message is handed to the broker client whatever isConnected says
publish_Unguarded(w, msg, retain) ==
    [w EXCEPT !.effects = Append(@, [op |-> "publish", to |-> w.client,
                                     what |-> msg, retain |-> retain, ms |-> 0])]

\* lines 267-292: reject at once when not connected, else client.publish
publish(w, msg, retain) ==
    IF ~w.isConnected
    THEN [w EXCEPT !.effects = Append(@, [op |-> "reject", to |-> 0,
                                          what |-> msg, retain |-> retain, ms |-> 0])]
    ELSE [w EXCEPT !.effects = Append(@, [op |-> "publish", to |-> w.client,
                                          what |-> msg, retain |-> retain, ms |-> 0])]

\* lines 427-438
publishSystemStatus(w, status) == publish(w, status, TRUE)

\* lines 213-243: client.subscribe for every topic of the list
subscribeToTopics(w) ==
    [w EXCEPT !.effects = @ \o [k \in 1..Len(topicsToSubscribe) |->
                                  [op |-> "subscribe", to |-> w.client,
                                   what |-> topicsToSubscribe[k], retain |-> FALSE, ms |-> 0]]]

\* variant: the owner is told before the wrapper has subscribed and published
onConnect_EmitFirst(w) ==
    publishSystemStatus(
        subscribeToTopics(
            emit([w EXCEPT !.isConnected = TRUE, !.reconnectAttempts = 0], "connected")),
        "online")

\* lines 103-112
onConnect(w) ==
    emit(publishSystemStatus(
             subscribeToTopics([w EXCEPT !.isConnected = TRUE, !.reconnectAttempts = 0]),
             "online"),
         "connected")

\* lines 148-159
onError(w, auth) ==
    LET w1 == [w EXCEPT !.isConnected = FALSE] IN
    handleReconnection(IF auth THEN emit(w1, "authenticationFailed") ELSE w1)

\* lines 161-165
onClose(w) == handleReconnection([w EXCEPT !.isConnected = FALSE])

\* lines 167-170
onOffline(w) == [w EXCEPT !.isConnected = FALSE]

\* lines 458-462: the timer callback
onTimer(w, threw) == IF ~w.isConnected THEN init(w, threw) ELSE w

\* lines 491-493: disconnect() publishes the offline notice if there is a
\* client and the wrapper is connected, else it returns at once
disconnect(w) ==
    IF w.client # 0 /\ w.isConnected THEN publishSystemStatus(w, "offline") ELSE w

\* lines 493-497: the awaited publish settled; a rejection leaves disconnect()
\* before client.end is called; client.end stops the client for good, and a
\* client whose stream is still open reports close once more
disconnect_Published(w, err) ==
    IF err THEN w
    ELSE [w EXCEPT !.links[w.client] = IF @ = "closed" THEN "ended" ELSE "ending",
                   !.effects = Append(@, [op |-> "end", to |-> w.client, what |-> "",
                                          retain |-> FALSE, ms |-> 0])]

(* ------------------------- inbound messages ---------------------------- *)
\* a topic as its characters, cut at the slashes: '/odom' is <<"/", "odom">>
Path(segs) ==
    [i \in 1..(2 * Len(segs)) |-> IF i % 2 = 1 THEN "/" ELSE segs[i \div 2]]

\* String.prototype.startsWith
startsWith(t, p) == Len(t) >= Len(p) /\ SubSeq(t, 1, Len(p)) = p

\* lines 24-57
topics ==
    [ROBOT_ORDERS |-> Path(<<"cafe", "robot", "orders", "next">>),
     ROBOT_STATUS |-> Path(<<"cafe", "robot", "status">>),
     ROBOT_LOCATION |-> Path(<<"cafe", "robot", "location">>),
     ROBOT_FEEDBACK |-> Path(<<"cafe", "robot", "feedback">>),
     KITCHEN_STATUS |-> Path(<<"cafe", "kitchen", "status">>),
     DELIVERY_COMPLETE |-> Path(<<"cafe", "delivery", "complete">>),
     DELIVERY_STATUS |-> Path(<<"cafe", "delivery", "status">>),
     SYSTEM_STATUS |-> Path(<<"cafe", "system", "status">>),
     EMERGENCY |-> Path(<<"cafe", "emergency">>),
     ORDERS_NEW |-> Path(<<"cafe", "orders", "new">>),
     ROS_ODOM |-> Path(<<"odom">>),
     ROS_MAP |-> Path(<<"map">>),
     ROS_RESULT |-> Path(<<"move_base", "result">>)]

\* lines 177-211: the event each exact-topic handler emits
topicHandlers ==
    (topics.ROBOT_STATUS :> "robotStatus") @@ (topics.ROBOT_LOCATION :> "robotLocation") @@
    (topics.ROBOT_FEEDBACK :> "robotFeedback") @@
    (topics.DELIVERY_COMPLETE :> "deliveryComplete") @@
    (topics.DELIVERY_STATUS :> "deliveryStatus") @@ (topics.EMERGENCY :> "emergency") @@
    (topics.ROS_ODOM :> "rosOdometry") @@ (topics.ROS_RESULT :> "rosNavigationResult")

\* inbound messages.  Topics: the registered ones, one under each prefix, one
\* two levels under a prefix, a subscribed topic without handler, another.
\* Payloads: JSON text of an object with or without order_id (0 when it has
\* none), and text that is not JSON
MessageInputs ==
    { [topic |-> t, json |-> p[1], order_id |-> p[2]] :
        t \in DOMAIN topicHandlers \cup
              {Path(<<"cafe", "robot", "battery">>), topics.ROBOT_ORDERS, topics.ORDERS_NEW,
               topics.SYSTEM_STATUS, topics.KITCHEN_STATUS, topics.ROS_MAP},
        p \in {<<TRUE, 1>>, <<TRUE, 0>>, <<FALSE, 0>>} }

\* variant: the status update is forwarded whether or not an order id came
onDeliveryComplete_AlwaysUpdate(w, data) ==
    LET ioEmit(ev) == [op |-> "io.emit", to |-> data.order_id, what |-> ev,
                       retain |-> FALSE, ms |-> 0]
    IN [w EXCEPT !.effects = @ \o <<ioEmit("delivery_complete"),
                                    ioEmit("auto_update_order_status")>>]

\* lines 586-597: index.js listener of deliveryComplete, two io.emit calls
onDeliveryComplete(w, data) ==
    LET ioEmit(ev) == [op |-> "io.emit", to |-> data.order_id, what |-> ev,
                       retain |-> FALSE, ms |-> 0]
    IN [w EXCEPT !.effects = @ \o <<ioEmit("delivery_complete")>>
                                 \o (IF data.order_id # 0
                                     THEN <<ioEmit("auto_update_order_status")>>
                                     ELSE <<>>)]

\* this.emit(ev, data): the listeners registered by index.js run inside it
emitData(w, ev, data) ==
    LET w1 == emit(w, ev) IN
    IF ev = "deliveryComplete" THEN onDeliveryComplete(w1, data) ELSE w1

\* variant: the prefixes are tried before the exact-topic handlers
handleIncomingMessage_PrefixFirst(w, topic, data) ==
    IF startsWith(topic, Path(<<"cafe", "robot">>) \o <<"/">>)
    THEN emitData(w, "robotMessage", data)
    ELSE IF startsWith(topic, Path(<<"cafe", "orders">>) \o <<"/">>)
    THEN emitData(w, "orderMessage", data)
    ELSE IF startsWith(topic, Path(<<"cafe", "system">>) \o <<"/">>)
    THEN emitData(w, "systemMessage", data)
    ELSE IF topic \in DOMAIN topicHandlers
    THEN emitData(w, topicHandlers[topic], data)
    ELSE emitData(w, "unhandledMessage", data)

\* lines 245-264: the exact-topic handler if there is one, else by prefix
handleIncomingMessage(w, topic, data) ==
    IF topic \in DOMAIN topicHandlers
    THEN emitData(w, topicHandlers[topic], data)
    ELSE IF startsWith(topic, Path(<<"cafe", "robot">>) \o <<"/">>)
    THEN emitData(w, "robotMessage", data)
    ELSE IF startsWith(topic, Path(<<"cafe", "orders">>) \o <<"/">>)
    THEN emitData(w, "orderMessage", data)
    ELSE IF startsWith(topic, Path(<<"cafe", "system">>) \o <<"/">>)
    THEN emitData(w, "systemMessage", data)
    ELSE emitData(w, "unhandledMessage", data)

\* lines 114-146: JSON.parse or the {message, raw} fallback, enrichedData,
\* classify, then the generic message event
onMessage(w, message) ==
    LET enrichedData == [raw |-> ~message.json, order_id |-> message.order_id,
                         topic |-> message.topic]
    IN emitData(handleIncomingMessage(w, message.topic, enrichedData),
                "message", enrichedData)

\* the broker client c reports that its connection is up
ClientConnect(c) ==
    /\ links[c] = "connecting"
    /\ LET w == onConnect([Wrapper EXCEPT !.links[c] = "connected"]) IN
        /\ isConnected' = w.isConnected
        /\ reconnectAttempts' = w.reconnectAttempts
        /\ timers' = w.timers
        /\ signalled' = FALSE
        /\ inits' = 0
        /\ client' = w.client
        /\ links' = w.links
        /\ effects' = w.effects
    /\ event' = "connect"
    /\ UNCHANGED <<closing, nonMqttVars>>

\* the broker client c reports an error; a client that was ended and has
\* closed reports nothing more
ClientError(c) ==
    /\ links[c] # "ended"
    /\ \E auth \in BOOLEAN :
        LET w == onError(Wrapper, auth) IN
        /\ w.timers <= MaxTimers
        /\ isConnected' = w.isConnected
        /\ reconnectAttempts' = w.reconnectAttempts
        /\ timers' = w.timers
        /\ signalled' = w.signalled
        /\ inits' = w.inits
        /\ client' = w.client
        /\ links' = w.links
        /\ effects' = w.effects
    /\ event' = "error"
    /\ UNCHANGED <<closing, nonMqttVars>>

\* the connection of broker client c, or its attempt to connect, has ended
ClientClose(c) ==
    /\ links[c] \in {"connecting", "connected", "ending"}
    /\ LET w == onClose([Wrapper EXCEPT
                            !.links[c] = IF @ = "ending" THEN "ended" ELSE "closed"]) IN
        /\ w.timers <= MaxTimers
        /\ isConnected' = w.isConnected
        /\ reconnectAttempts' = w.reconnectAttempts
        /\ timers' = w.timers
        /\ signalled' = w.signalled
        /\ inits' = w.inits
        /\ client' = w.client
        /\ links' = w.links
        /\ effects' = w.effects
    /\ event' = "close"
    /\ UNCHANGED <<closing, nonMqttVars>>

\* the broker client c reports that it is offline
ClientOffline(c) ==
    /\ links[c] = "closed"
    /\ LET w == onOffline(Wrapper) IN
        /\ isConnected' = w.isConnected
        /\ reconnectAttempts' = w.reconnectAttempts
        /\ timers' = w.timers
        /\ signalled' = w.signalled
        /\ inits' = w.inits
        /\ client' = w.client
        /\ links' = w.links
        /\ effects' = w.effects
    /\ event' = "offline"
    /\ UNCHANGED <<closing, nonMqttVars>>

\* lines 19, 71, 172-174: the broker client c starts over after reconnectPeriod
ClientReconnect(c) ==
    /\ links[c] = "closed"
    /\ links' = [links EXCEPT ![c] = "connecting"]
    /\ event' = "reconnect"
    /\ effects' = <<>>
    /\ UNCHANGED <<isConnected, reconnectAttempts, timers, signalled, client, closing, inits, nonMqttVars>>

\* a timer of handleReconnection expires
TimerFires ==
    /\ timers > 0
    /\ \E threw \in BOOLEAN :
        LET w == onTimer([Wrapper EXCEPT !.timers = @ - 1], threw) IN
        /\ Len(w.links) <= MaxClients
        /\ w.timers <= MaxTimers
        /\ isConnected' = w.isConnected
        /\ reconnectAttempts' = w.reconnectAttempts
        /\ timers' = w.timers
        /\ signalled' = w.signalled
        /\ inits' = w.inits
        /\ client' = w.client
        /\ links' = w.links
        /\ effects' = w.effects
    /\ event' = "timer"
    /\ UNCHANGED <<closing, nonMqttVars>>

\* a route handler calls publish
Publish ==
    /\ \E msg \in Msgs :
        LET w == publish(Wrapper, msg, FALSE) IN
        /\ isConnected' = w.isConnected
        /\ reconnectAttempts' = w.reconnectAttempts
        /\ timers' = w.timers
        /\ signalled' = w.signalled
        /\ inits' = w.inits
        /\ client' = w.client
        /\ links' = w.links
        /\ effects' = w.effects
    /\ event' = "publish"
    /\ UNCHANGED <<closing, nonMqttVars>>

\* the broker client hands over a message it received
ClientMessage(message) ==
    /\ LET w == onMessage(Wrapper, message) IN
        effects' = w.effects
    /\ event' = "message"
    /\ UNCHANGED <<isConnected, reconnectAttempts, timers, signalled, client, links,
                   closing, inits, nonMqttVars>>

\* SIGINT or SIGTERM: index.js calls disconnect()
Disconnect ==
    /\ closing = "none"
    /\ LET w == disconnect(Wrapper) IN
        /\ effects' = w.effects
        /\ closing' = IF w.effects # <<>> THEN "publishing" ELSE "skipped"
    /\ event' = "disconnect"
    /\ UNCHANGED <<isConnected, reconnectAttempts, timers, signalled, client, links,
                   inits, nonMqttVars>>

\* client.publish's callback for the offline notice
DisconnectCallback ==
    /\ closing = "publishing"
    /\ \E err \in BOOLEAN :
        LET w == disconnect_Published(Wrapper, err) IN
        /\ links' = w.links
        /\ effects' = w.effects
        /\ closing' = IF err THEN "rejected" ELSE "ended"
    /\ event' = "disconnected"
    /\ UNCHANGED <<isConnected, reconnectAttempts, timers, signalled, client,
                   inits, nonMqttVars>>

\* the wrapper as its constructor leaves it; mqtt.connect may have thrown
MqttInit ==
    /\ isConnected = FALSE
    /\ \E threw \in BOOLEAN :
        LET w == init([isConnected |-> FALSE, reconnectAttempts |-> 0, timers |-> 0,
                       signalled |-> FALSE, client |-> 0, links |-> <<>>,
                       inits |-> 0, effects |-> <<>>], threw) IN
        /\ reconnectAttempts = w.reconnectAttempts
        /\ timers = w.timers
        /\ signalled = w.signalled
        /\ client = w.client
        /\ links = w.links
        /\ effects = w.effects
        /\ inits = w.inits
    /\ event = "init"
    /\ closing = "none"
    /\ StoreIdle
    /\ orders = [o \in OrderIds |-> "none"]
    /\ stored = [o \in OrderIds |-> NoRow]
    /\ sub = IdleSubmit
    /\ req = [r \in Reqs |-> Idle]
    /\ dbQueue = <<>>
    /\ started = 0
    /\ rawItems = <<>>
    /\ passes = <<>>
    /\ itemTotal = 0

MqttNext ==
    \/ \E c \in 1..Len(links) : ClientConnect(c)
    \/ \E c \in 1..Len(links) : ClientError(c)
    \/ \E c \in 1..Len(links) : ClientClose(c)
    \/ \E c \in 1..Len(links) : ClientOffline(c)
    \/ \E c \in 1..Len(links) : ClientReconnect(c)
    \/ TimerFires
    \/ Publish

MqttSpec == MqttInit /\ [][MqttNext]_vars

\* the wrapper while messages come in on a connected client
MessageNext ==
    \/ \E c \in 1..Len(links) : ClientConnect(c)
    \/ \E c \in 1..Len(links) : ClientClose(c)
    \/ \E c \in 1..Len(links) : ClientReconnect(c)
    \/ \E c \in 1..Len(links), message \in MessageInputs :
          links[c] = "connected" /\ ClientMessage(message)

MessageSpec == MqttInit /\ [][MessageNext]_vars

\* the transition routes while the robot reports deliveries
InboundNext ==
    \/ Next
    \/ \E message \in MessageInputs :
          /\ message.topic = topics.DELIVERY_COMPLETE
          /\ isConnected
          /\ ClientMessage(message)

InboundSpec == Init /\ [][InboundNext]_vars

\* the wrapper while the process is told to shut down
ShutdownNext ==
    \/ \E c \in 1..Len(links) : ClientConnect(c)
    \/ \E c \in 1..Len(links) : ClientError(c)
    \/ \E c \in 1..Len(links) : ClientClose(c)
    \/ \E c \in 1..Len(links) : ClientOffline(c)
    \/ \E c \in 1..Len(links) : ClientReconnect(c)
    \/ TimerFires
    \/ Disconnect
    \/ DisconnectCallback

ShutdownSpec == MqttInit /\ [][ShutdownNext]_vars

(* ------------------------------ properties ----------------------------- *)
Done(r) == req[r].pc = "done"

NoEmission(q) ==
    /\ q.statusPubs = 0
    /\ q.dispatchPubs = 0
    /\ \A e \in PushEvents : q.pushes[e] = 0

\* the step in which PUT handler r, target 'ready', takes the dispatch
\* decision of line 373: it leaves the reload with no status publish to
\* await, or it resumes from the status publish
DecidesDispatch(r) ==
    /\ req[r].kind = "put"
    /\ req[r].status = "ready"
    /\ \/ /\ req[r].pc = "get2"
          /\ req'[r].pc \notin {"get2", "statusPub"}
          /\ req'[r].code # 500
       \/ /\ req[r].pc = "statusPub"
          /\ req'[r].pc # "statusPub"

\* C1: once an order's stored status is delivered or cancelled it never
\* changes again, and a transition request that finds the order in such a
\* status at its lookup is rejected (it neither goes on to the store write
\* nor answers success).
C1_TerminalIsFinal ==
    [][ /\ \A o \in OrderIds : orders[o] \in Terminal => orders'[o] = orders[o]
        /\ \A r \in Reqs :
              ( /\ dbQueue # <<>>
                /\ Head(dbQueue) = r
                /\ req[r].pc = "get1"
                /\ getOrderById(orders, req[r].orderId) \in Terminal )
              => ( req'[r].pc \in {"get1", "done"} /\ req'[r].code # 200 )
      ]_vars

\* C2: a staff transition to 'ready' publishes to the agent-dispatch topic
\* exactly once if the transport is connected when the handler takes the
\* dispatch decision and not at all otherwise, never more than once per
\* call, whatever the previous status was; the call then answers success
\* with that one publish made.
C2_OneDispatchPerReadyCall ==
    [][ \A r \in Reqs :
          /\ DecidesDispatch(r) =>
                /\ req'[r].dispatchPubs = (IF isConnected THEN 1 ELSE 0)
                /\ isConnected => req'[r].pc = "dispatch"
          /\ (req[r].pc = "dispatch" /\ req'[r].pc # "dispatch") =>
                /\ Done(r)'
                /\ req'[r].code = 200
                /\ req'[r].dispatchPubs = 1
          /\ req'[r].dispatchPubs <= 1
          /\ req'[r].status # "ready" => req'[r].dispatchPubs = 0
      ]_vars

C2_Witness ==
    \E r \in Reqs :
        /\ Done(r)
        /\ req[r].kind = "put"
        /\ req[r].status = "ready"
        /\ req[r].oldStatus = "ready"
        /\ req[r].code = 200
        /\ req[r].dispatchPubs = 1

\* C3: when the transport is not connected at the dispatch decision of a
\* staff transition to 'ready', the handler finishes in that same segment:
\* its write of 'ready' stands (one write, no further write to the table),
\* it answers success with robotNotified = false, publishes nothing to the
\* agent-dispatch topic and pushes exactly one mqtt_warning.
C3_ReadyWhileDisconnected ==
    [][ \A r \in Reqs :
          (DecidesDispatch(r) /\ ~isConnected) =>
              /\ Done(r)'
              /\ req'[r].code = 200
              /\ req'[r].robotNotified = FALSE
              /\ req'[r].dispatchPubs = 0
              /\ req'[r].pushes["mqtt_warning"] = 1
              /\ req'[r].writes = 1
              /\ orders' = orders
      ]_vars

C3_Witness ==
    \E r \in Reqs :
        /\ Done(r)
        /\ req[r].kind = "put"
        /\ req[r].status = "ready"
        /\ req[r].code = 200
        /\ req[r].pushes["mqtt_warning"] = 1
        /\ req[r].robotNotified = FALSE
        /\ orders[req[r].orderId] = "ready"

\* C4: in the response of a staff transition, robotNotified is true only if
\* the agent-dispatch publish of that call succeeded; a failed or missing
\* dispatch publish is reported as robotNotified = false.
C4_RobotNotifiedIsDispatchOutcome ==
    \A r \in Reqs :
        (Done(r) /\ req[r].kind = "put" /\ req[r].code = 200) =>
            (req[r].robotNotified => req[r].dispatch = "ok")

\* C5: an automated request whose target is not 'delivered' never answers
\* success, never writes to the table and emits no push or publish, and for
\* an existing order it is answered 400 unless the lookup itself fails; an
\* automated request with target 'delivered' that finds an existing,
\* non-terminal order goes on to the store write, and when that write is
\* executed the stored status is 'delivered' and the answer is success (the
\* only other outcome is the 500 of a failed store call).
C5_AutomatedOnlyDelivered ==
    [][ \A r \in Reqs :
          /\ (req'[r].kind = "auto" /\ req'[r].status # "delivered") =>
                /\ req'[r].code # 200
                /\ req'[r].writes = 0
                /\ NoEmission(req'[r])
          /\ ( /\ req[r].kind = "auto"
               /\ req[r].status # "delivered"
               /\ dbQueue # <<>>
               /\ Head(dbQueue) = r ) => orders' = orders
          /\ ( /\ req[r].kind = "auto"
               /\ dbQueue # <<>>
               /\ Head(dbQueue) = r
               /\ req[r].pc = "get1"
               /\ req'[r] # req[r]
               /\ getOrderById(orders, req[r].orderId) # "none" ) =>
                IF req[r].status = "delivered"
                THEN req'[r].pc = "write" \/ req'[r].code = 500
                ELSE Done(r)' /\ req'[r].code \in {400, 500}
          /\ ( /\ req[r].kind = "auto"
               /\ req[r].pc = "write"
               /\ req'[r].pc # "write" ) =>
                \/ /\ req'[r].code = 200
                   /\ req'[r].writes = 1
                   /\ orders'[req[r].orderId] = "delivered"
                \/ /\ req'[r].code = 500
                   /\ req'[r].writes = 0
                   /\ orders' = orders
      ]_vars

C5_Witness ==
    /\ \E r \in Reqs :
        /\ Done(r)
        /\ req[r].kind = "auto"
        /\ req[r].status = "ready"
        /\ req[r].code = 400
        /\ req[r].orderId \in OrderIds
        /\ req[r].writes = 0
    /\ \E r \in Reqs :
        /\ Done(r)
        /\ req[r].kind = "auto"
        /\ req[r].status = "delivered"
        /\ req[r].oldStatus \notin Terminal
        /\ req[r].code = 200
        /\ orders[req[r].orderId] = "delivered"

\* C6: a request has pushed or published something only if its own store
\* write has completed successfully: nothing is emitted before the write is
\* issued or while it is queued.
C6_EmitOnlyAfterCommit ==
    \A r \in Reqs :
        ~NoEmission(req[r]) =>
            /\ req[r].writes = 1
            /\ req[r].pc \in {"statusPub", "dispatch", "done"}

C6_Witness ==
    \E r \in Reqs :
        /\ req[r].pc = "statusPub"
        /\ req[r].statusPubs = 1
        /\ req[r].writes = 1

\* C7: when the store write of a transition fails, the request ends at once
\* with a failure answer and has emitted no push, no status publish and no
\* agent dispatch.
C7_FailedWriteNoDistribution ==
    [][ \A r \in Reqs :
          ( /\ req[r].pc = "write"
            /\ req'[r].pc # "write"
            /\ req'[r].writes = req[r].writes ) =>
              /\ Done(r)'
              /\ req'[r].code = 500
              /\ NoEmission(req'[r])
              /\ orders' = orders
      ]_vars

C7_Witness ==
    \E r \in Reqs :
        /\ Done(r)
        /\ req[r].oldStatus # ""
        /\ req[r].writes = 0
        /\ req[r].code = 500
        /\ NoEmission(req[r])

\* C8: a request that has ended after its store write succeeded has pushed
\* exactly one order_status_updated event carrying its old and new status.
C8_CommittedIsAnnounced ==
    \A r \in Reqs :
        (Done(r) /\ req[r].writes = 1) =>
            /\ req[r].pushes["order_status_updated"] = 1
            /\ req[r].announced =
                  <<req[r].oldStatus,
                    IF req[r].kind = "delete" THEN "cancelled" ELSE req[r].status>>

C10_CommittedRequestReturns ==
    \A r \in Reqs : (req[r].writes = 1 /\ ~Done(r)) ~> Done(r)


\* the status a request writes and announces
Target(q) == IF q.kind = "delete" THEN "cancelled" ELSE q.status

\* the step in which handler r reaches its status-publish decision: right
\* after the store write (DELETE, automated) or after the reload (PUT)
DistributesStatus(r) ==
    \/ /\ req[r].kind \in {"delete", "auto"}
       /\ req[r].pc = "write"
       /\ req'[r].writes = req[r].writes + 1
    \/ /\ req[r].kind = "put"
       /\ req[r].pc = "get2"
       /\ req'[r].pc # "get2"
       /\ req'[r].code # 500

\* C11: every committed transition (staff, automated, cancel) makes exactly
\* one publish to /cafe/orders/status if the transport is connected when it
\* is distributed and none if it is not, and never more than one.
C11_OneStatusPublishPerCommit ==
    [][ \A r \in Reqs :
          /\ DistributesStatus(r) =>
                req'[r].statusPubs = (IF isConnected THEN 1 ELSE 0)
          /\ req'[r].statusPubs <= 1
      ]_vars

\* C12: requests on the same order are not serialized.  Every store write
\* that succeeds leaves the writer's own target in the table, whatever was
\* stored or read before (the later write wins), and every request announces
\* the status it asked for itself, whatever is stored by then.
C12_LastWriteWinsOwnStatusAnnounced ==
    [][ \A r \in Reqs :
          /\ ( /\ req[r].pc = "write"
               /\ req'[r].writes = req[r].writes + 1 ) =>
                orders'[req[r].orderId] = Target(req[r])
          /\ req'[r].announced # <<>> =>
                req'[r].announced[2] = Target(req'[r])
      ]_vars

\* two requests overlapped, the cancel wrote last and answered first, and the
\* PUT announced 'preparing' after it had itself read back 'cancelled'
C12_Witness ==
    \E r1, r2 \in Reqs :
        /\ Done(r1) /\ Done(r2)
        /\ req[r1].kind = "put"
        /\ req[r1].status = "preparing"
        /\ req[r1].code = 200
        /\ req[r1].updated = "cancelled"
        /\ req[r1].announced = <<"pending", "preparing">>
        /\ req[r2].kind = "delete"
        /\ req[r2].code = 200
        /\ req[r2].oldStatus = "pending"
        /\ req[r2].orderId = req[r1].orderId
        /\ orders[req[r1].orderId] = "cancelled"

\* C13: every stored status is one of the five statuses of the enum, and a
\* staff request with any other target has ended with 400 without a store
\* write, a push or a publish.
C13_StatusStaysInEnum ==
    /\ \A o \in OrderIds : orders[o] \in allowedStatuses \cup {"none"}
    /\ \A r \in Reqs :
          (req[r].kind = "put" /\ req[r].status \notin allowedStatuses) =>
              /\ Done(r)
              /\ req[r].code = 400
              /\ req[r].writes = 0
              /\ NoEmission(req[r])

C13_Witness ==
    \E r \in Reqs :
        /\ Done(r)
        /\ req[r].kind = "put"
        /\ req[r].status = "completed"
        /\ req[r].code = 400
        /\ orders[req[r].orderId] = "pending"

\* C14: a transition request (staff, automated, cancel) whose lookup finds no
\* order with that id ends there with 404 (500 if the lookup itself fails),
\* issues no store write, no push and no publish, and leaves the table as it
\* is.
C14_UnknownOrderIsNotFound ==
    [][ \A r \in Reqs :
          ( /\ dbQueue # <<>>
            /\ Head(dbQueue) = r
            /\ req[r].pc = "get1"
            /\ req'[r] # req[r]
            /\ getOrderById(orders, req[r].orderId) = "none" ) =>
              /\ Done(r)'
              /\ req'[r].code \in {404, 500}
              /\ req'[r].writes = 0
              /\ NoEmission(req'[r])
              /\ orders' = orders
              /\ r \notin {dbQueue'[i] : i \in 1..Len(dbQueue')}
      ]_vars

C14_Witness ==
    /\ \E r \in Reqs :
        /\ Done(r)
        /\ req[r].kind = "put"
        /\ req[r].code = 404
        /\ NoEmission(req[r])
    /\ \E r \in Reqs :
        /\ Done(r)
        /\ req[r].kind = "delete"
        /\ req[r].code = 404
        /\ NoEmission(req[r])
    /\ \A o \in OrderIds : orders[o] = "none"


(* ------------------------ properties of the items ---------------------- *)
HasRow(o) == orders[o] # "none"

\* the stored item lines of order o (the items column, parsed)
StoredLines(o) == stored[o].items.val

RECURSIVE SumOver(_, _)
\* the sum of f[i] over the finite set S of indices
SumOver(f, S) ==
    IF S = {} THEN 0
    ELSE LET i == CHOOSE j \in S : TRUE IN f[i] + SumOver(f, S \ {i})

\* C15: every stored order has a non-empty item list in which every quantity
\* is at least 1 and every unit price is at least 0.
C15_StoredItemsValid ==
    \A o \in OrderIds :
        HasRow(o) =>
            /\ StoredLines(o) # <<>>
            /\ \A i \in 1..Len(StoredLines(o)) :
                  /\ StoredLines(o)[i].quantity >= 1
                  /\ StoredLines(o)[i].price >= 0

\* C16: the stored totalPrice of every order equals the sum of unit price
\* times quantity over its stored item lines.
C16_TotalIsSumOfLines ==
    \A o \in OrderIds :
        HasRow(o) =>
            stored[o].totalPrice =
                SumOver([i \in 1..Len(StoredLines(o)) |->
                            StoredLines(o)[i].price * StoredLines(o)[i].quantity],
                        1..Len(StoredLines(o)))

\* an order of two lines was stored with total 6 although the client sent 5
C16_Witness ==
    \E o \in OrderIds :
        /\ HasRow(o)
        /\ sub.orderId = o
        /\ sub.body.totalPrice = 5
        /\ Len(StoredLines(o)) = 2
        /\ StoredLines(o)[1].quantity = 2
        /\ stored[o].totalPrice = 6

\* C17: consolidating a consolidated list gives the same list back.
C17_ConsolidationIdempotent ==
    Len(passes) = 2 => passes[2] = passes[1]

\* what the claims say of an input list x: effective name, quantity and price
\* of an item, with the defaults for missing fields
SaidName(item) ==
    IF item.name # "" THEN item.name ELSE IF item.title # "" THEN item.title ELSE Unnamed
SaidQuantity(item) ==
    IF item.quantity # 0 THEN item.quantity ELSE IF item.count # 0 THEN item.count ELSE 1
SaidPrice(item) == item.price

\* positions of x at which a name occurs for the first time
FirstOccurrences(x) ==
    { i \in 1..Len(x) : \A j \in 1..(i - 1) : SaidName(x[j]) # SaidName(x[i]) }

\* the k-th smallest element of the set S of integers
Kth(S, k) == CHOOSE i \in S : Cardinality({j \in S : j <= i}) = k

\* one line per distinct name, in order of first occurrence
SaidLines(x) ==
    [k \in 1..Cardinality(FirstOccurrences(x)) |->
        LET first == Kth(FirstOccurrences(x), k)
            same == { i \in 1..Len(x) : SaidName(x[i]) = SaidName(x[first]) }
            qty == SumOver([i \in 1..Len(x) |-> SaidQuantity(x[i])], same)
        IN [name |-> SaidName(x[first]),
            quantity |-> qty,
            price |-> SaidPrice(x[first]),
            totalItemPrice |-> SaidPrice(x[first]) * qty]]

C19_ClientTotalIgnored ==
    (sub.pc = "done" /\ sub.code = 400) =>
        \A p \in TotalInputs :
            ~validateOrderData([sub.body EXCEPT !.totalPrice = p])

\* C20: a submit without tableId, with items that are not a non-empty array,
\* or whose consolidated items have no quantity >= 1, ends with 400, creates
\* no order and emits no push or publish.
C20_InvalidSubmitRejected ==
    ( /\ sub.pc # "idle"
      /\ \/ sub.body.tableId = 0
         \/ sub.body.items.type # "array"
         \/ sub.body.items.val = <<>>
         \/ \A i \in 1..Len(processOrderItems(sub.body.items)) :
                processOrderItems(sub.body.items)[i].quantity < 1 ) =>
        /\ sub.pc = "done"
        /\ sub.code = 400
        /\ sub.orderId = 0
        /\ sub.newOrderPubs = 0
        /\ sub.newOrderPushes = 0


(* ------------------------ properties of the table ---------------------- *)
\* C21: every order is created with status pending, no operation removes an
\* order (a cancelled order is still found by its id) and no operation
\* changes an order's id.
C21_OrdersAreNeverRemoved ==
    [][ /\ Len(rows') >= Len(rows)
        /\ \A i \in 1..Len(rows) :
              /\ rows'[i].id = rows[i].id
              /\ selectById(rows', rows[i].id) = {i}
        /\ \A i \in (Len(rows) + 1)..Len(rows') : rows'[i].status = "pending" ]_vars

\* the first of two orders was cancelled and is still found by its id
C21_Witness ==
    /\ Len(rows) = 2
    /\ rows[1].status = "cancelled"
    /\ selectById(rows, 1) = {1}
    /\ rows[2].status = "pending"

\* C22: a write that changes items or totalPrice of an order sets both, the
\* total being the sum over the new items, and leaves id, status and table
\* unchanged; a write that changes the status leaves items and totalPrice
\* unchanged.
C22_ItemsAndTotalMoveTogether ==
    [][ \A i \in 1..Len(rows) :
          /\ (rows'[i].items # rows[i].items \/ rows'[i].totalPrice # rows[i].totalPrice) =>
                /\ rows'[i].id = rows[i].id
                /\ rows'[i].status = rows[i].status
                /\ rows'[i].tableId = rows[i].tableId
                /\ rows'[i].totalPrice =
                      SumOver([k \in 1..Len(rows'[i].items.val) |->
                                  rows'[i].items.val[k].price * rows'[i].items.val[k].quantity],
                              1..Len(rows'[i].items.val))
          /\ rows'[i].status # rows[i].status =>
                /\ rows'[i].items = rows[i].items
                /\ rows'[i].totalPrice = rows[i].totalPrice
                /\ rows'[i].id = rows[i].id
                /\ rows'[i].tableId = rows[i].tableId ]_vars

\* an order was amended to two Tea and one Cake (total 6) and made ready
C22_Witness ==
    \E i \in 1..Len(rows) :
        /\ rows[i].status = "ready"
        /\ Len(rows[i].items.val) = 2
        /\ rows[i].totalPrice = 6

\* C23: the list that getPendingOrders returns holds every stored order whose
\* status is none of delivered, cancelled, completed, each once, no other
\* order, and is in ascending order of creation time.
C23_PendingListing ==
    [][ ( /\ lst.pc = "query"
          /\ lst.kind = "pending"
          /\ lst'.pc \in {"publish", "done"}
          /\ lst'.code # 500 ) =>
        LET res == lst'.result IN
          /\ { res[k] : k \in 1..Len(res) } =
                { rows[i].id : i \in { j \in 1..Len(rows) :
                      rows[j].status \notin {"delivered", "cancelled", "completed"} } }
          /\ \A k, l \in 1..Len(res) : k # l => res[k] # res[l]
          /\ \A k, l \in 1..Len(res) :
                k < l => rows[res[k]].created_at <= rows[res[l]].created_at ]_vars

\* GET /pending listed the older order before the newer one
C23_Witness ==
    /\ lst.kind = "pending"
    /\ lst.pc = "done"
    /\ lst.code = 200
    /\ lst.orders = <<1, 2>>
    /\ Len(rows) = 2
    /\ rows[1].created_at < rows[2].created_at

\* C24: a listing that read the store answers 200 with the collection it
\* read, whether the transport was connected, not connected or its publish
\* failed; it publishes the collection once if the transport is connected
\* and not otherwise; no step of a listing changes a stored order.
C24_ListingToleratesTransport ==
    [][ /\ lst' # lst => rows' = rows
        /\ (lst.pc = "query" /\ lst' # lst /\ lst'.code # 500) =>
              /\ lst'.pubs = IF isConnected THEN 1 ELSE 0
              /\ lst.kind = "all" =>
                    { lst'.result[k] : k \in 1..Len(lst'.result) } = 1..Len(rows)
              /\ ~isConnected =>
                    (lst'.pc = "done" /\ lst'.code = 200 /\ lst'.orders = lst'.result)
        /\ (lst.pc = "publish" /\ lst' # lst) =>
              /\ lst'.pc = "done"
              /\ lst'.code = 200
              /\ lst'.orders = lst.result
              /\ lst'.pubs = 1 ]_vars

\* GET /all answered 200 with two orders although its publish was rejected
C24_Witness ==
    /\ lst.kind = "all"
    /\ lst.pc = "done"
    /\ lst.pub = "err"
    /\ lst.code = 200
    /\ Len(lst.orders) = 2


(* ----------------------- properties of the wrapper --------------------- *)
Handed(k) == effects[k].op = "publish"

\* C25: publish called while the wrapper is not connected is rejected at
\* once and hands nothing to the broker client; a message is handed over only
\* in the call that brought it, so a connect never sends an earlier message.
C25_PublishWhileDisconnectedFails ==
    /\ (event = "publish" /\ ~isConnected) =>
          /\ Len(effects) = 1
          /\ effects[1].op = "reject"
    /\ \A k \in 1..Len(effects) :
          Handed(k) =>
             \/ event = "publish" /\ isConnected /\ Len(effects) = 1
             \/ event = "connect" /\ effects[k].what = "online"

\* a publish was rejected while the wrapper was waiting to reconnect
C25_Witness ==
    /\ event = "publish"
    /\ ~isConnected
    /\ reconnectAttempts > 0
    /\ effects = <<[op |-> "reject", to |-> 0, what |-> "order", retain |-> FALSE, ms |-> 0]>>

\* C26: once maxReconnectAttemptsReached has been raised no further broker
\* client is made and the wrapper never reports connected again.
C26_GaveUpIsFinal ==
    [][ signalled => (Len(links') = Len(links) /\ ~isConnected') ]_vars

\* the state of the wrapper that the connection state machine speaks of
WrapperState ==
    IF isConnected THEN "connected"
    ELSE IF signalled THEN "disconnected"
    ELSE IF reconnectAttempts = 0 THEN "connecting"
    ELSE "reconnecting"

\* the two states in which a connection is being attempted
Attempting == {"connecting", "reconnecting"}

\* C27: the wrapper moves only connecting -> connected, connected ->
\* reconnecting, reconnecting -> connected and reconnecting -> disconnected
\* (connecting and reconnecting are not told apart here, so a failed first
\* attempt passes); a connect event leaves isConnected true, an error, close
\* or offline event leaves it false, and nothing else changes it.
C27_ConnectionStateMachine ==
    [][ /\ \/ WrapperState' = WrapperState
           \/ WrapperState \in Attempting /\ WrapperState' \in Attempting
           \/ WrapperState \in Attempting /\ WrapperState' = "connected"
           \/ WrapperState = "connected" /\ WrapperState' \in Attempting
           \/ WrapperState \in Attempting /\ WrapperState' = "disconnected"
        /\ isConnected' # isConnected =>
              IF isConnected' THEN event' = "connect"
              ELSE event' \in {"error", "close", "offline"} ]_vars

\* C28: at most one broker client exists and at most one reconnection timer
\* is pending, and while isConnected is true the client that publish writes
\* to is the connected one.
C28_OneClientOneTimer ==
    /\ Len(links) <= 1
    /\ timers <= 1
    /\ isConnected => (client # 0 /\ links[client] = "connected")

\* C29: the timer set for reconnection attempt n, n in 1..10, has the delay
\* min(5000 * n, 30000): never above 30000 and never below the delay of
\* attempt n - 1.
C29_ReconnectDelay ==
    \A k \in 1..Len(effects) :
        effects[k].op = "setTimeout" =>
            LET n == effects[k].to
                d == effects[k].ms
            IN /\ n \in 1..10
               /\ n = reconnectAttempts
               /\ d = IF 5000 * n <= 30000 THEN 5000 * n ELSE 30000
               /\ d <= 30000
               /\ n > 1 => d >= (IF 5000 * (n - 1) <= 30000 THEN 5000 * (n - 1) ELSE 30000)

\* the timer of the tenth attempt was set with 30000 ms
C29_Witness ==
    \E k \in 1..Len(effects) :
        /\ effects[k].op = "setTimeout"
        /\ effects[k].to = 10
        /\ effects[k].ms = 30000

\* C30: at every connect event the wrapper subscribes to each topic of the
\* fixed list, hands over exactly one retained 'online' status message and
\* only then emits 'connected'.
C30_ConnectAnnounces ==
    event = "connect" =>
        /\ \A t \in 1..Len(topicsToSubscribe) :
              Cardinality({ k \in 1..Len(effects) :
                              /\ effects[k].op = "subscribe"
                              /\ effects[k].what = topicsToSubscribe[t]
                              /\ effects[k].to = client }) = 1
        /\ Cardinality({ k \in 1..Len(effects) : Handed(k) }) = 1
        /\ \A k \in 1..Len(effects) :
              Handed(k) => (effects[k].what = "online" /\ effects[k].retain /\ effects[k].to = client)
        /\ Cardinality({ k \in 1..Len(effects) :
                            effects[k].op = "emit" /\ effects[k].what = "connected" }) = 1
        /\ \A k, l \in 1..Len(effects) :
              ( /\ effects[k].op \in {"subscribe", "publish"}
                /\ effects[l].op = "emit" /\ effects[l].what = "connected" ) => k < l

\* the client made by a reconnection attempt connected and was announced
C30_Witness ==
    /\ event = "connect"
    /\ client = 2
    /\ links[2] = "connected"
    /\ Len(effects) = Len(topicsToSubscribe) + 2

(* -------- dispatch notices and interleaved transitions (C33, C35, C36) -- *)
\* C33: a staff transition to 'ready' pushes exactly one dispatch-outcome
\* notice: mqtt_warning at the dispatch decision iff the transport is not
\* connected then (no dispatch is made), order_sent_to_robot success=true
\* iff the dispatch publish succeeded, success=false iff it was made and
\* failed; no request pushes more than one notice and a request with
\* another target pushes none.
C33_OneDispatchNoticePerReady ==
    [][ LET Notices(q) == q.pushes["order_sent_ok"] + q.pushes["order_sent_fail"]
                          + q.pushes["mqtt_warning"]
        IN
        \A r \in Reqs :
          /\ DecidesDispatch(r) =>
                /\ req'[r].pushes["mqtt_warning"] = (IF isConnected THEN 0 ELSE 1)
                /\ req'[r].pushes["order_sent_ok"] = 0
                /\ req'[r].pushes["order_sent_fail"] = 0
                /\ ~isConnected => req'[r].dispatchPubs = 0
          /\ (req[r].pc = "dispatch" /\ req'[r].pc # "dispatch") =>
                /\ req'[r].pushes["order_sent_ok"] =
                      (IF req'[r].dispatch = "ok" THEN 1 ELSE 0)
                /\ req'[r].pushes["order_sent_fail"] =
                      (IF req'[r].dispatch = "err" THEN 1 ELSE 0)
                /\ req'[r].dispatch \in {"ok", "err"}
                /\ req'[r].pushes["mqtt_warning"] = 0
          /\ Notices(req'[r]) <= 1
          /\ (Done(r)' /\ req'[r].kind = "put" /\ req'[r].status = "ready"
                /\ req'[r].code = 200) => Notices(req'[r]) = 1
          /\ (req'[r].kind # "put" \/ req'[r].status # "ready") =>
                Notices(req'[r]) = 0
      ]_vars

C33_Witness ==
    \E r \in Reqs :
        /\ Done(r)
        /\ req[r].kind = "put"
        /\ req[r].status = "ready"
        /\ req[r].code = 200
        /\ req[r].dispatch = "err"
        /\ req[r].pushes["order_sent_fail"] = 1

\* C35: the oldStatus a request goes on to announce is the status that was
\* stored immediately before that request's own store write, whatever other
\* requests for the same order did in between.
C35_OldStatusIsStatusBeforeOwnWrite ==
    [][ \A r \in Reqs :
          (req[r].pc = "write" /\ req'[r].writes = req[r].writes + 1) =>
              req[r].oldStatus = orders[req[r].orderId]
      ]_vars

\* C36: whenever a request publishes the agent-dispatch message for an
\* order, that order's stored status is 'ready' at that moment.
C36_DispatchOnlyWhileReady ==
    [][ \A r \in Reqs :
          req'[r].dispatchPubs = req[r].dispatchPubs + 1 =>
              orders'[req[r].orderId] = "ready"
      ]_vars

(* ----------------- what a submit emits and answers (C34, C40) ---------- *)
\* C34: a submit that answers 201 has pushed new_order_created exactly once;
\* when the order has been read back the handler makes one new-order publish
\* if the transport is connected and none if it is not; no push or publish
\* is made before the order is stored; a failed publish leaves the stored
\* order as it is and the submit still answers 201.
C34_SubmitEmitsAfterStore ==
    [][ /\ sub'.newOrderPushes <= 1
        /\ sub'.newOrderPubs <= 1
        /\ (sub'.pc = "done" /\ sub'.code = 201) => sub'.newOrderPushes = 1
        /\ (sub.pc = "fetch" /\ sub'.pc # "fetch" /\ sub'.code # 500) =>
              sub'.newOrderPubs = (IF isConnected THEN 1 ELSE 0)
        /\ (sub'.newOrderPushes > 0 \/ sub'.newOrderPubs > 0) =>
              /\ sub'.orderId \in OrderIds
              /\ orders'[sub'.orderId] = "pending"
        /\ (sub.pc = "publish" /\ sub'.newOrderPub = "err") =>
              /\ sub'.pc = "done"
              /\ sub'.code = 201
              /\ orders' = orders
              /\ stored' = stored
      ]_vars

C34_Witness ==
    /\ sub.pc = "done"
    /\ sub.code = 201
    /\ sub.newOrderPub = "err"
    /\ sub.newOrderPubs = 1
    /\ sub.newOrderPushes = 1
    /\ orders[sub.orderId] = "pending"

\* C40: the order in a 201 response has the item lines (name, quantity,
\* price), the totalPrice and the status of the row this submit stored
\* (createOrder applied to the handler's orderData).
C40_ResponseIsStoredOrder ==
    (sub.pc = "done" /\ sub.code = 201) =>
        LET SubmittedRow == createOrder([items |-> JSONstringify(sub.processedItems),
                                         totalPrice |-> sub.body.totalPrice])
            lines == JSONparse(SubmittedRow.items).val
        IN
        /\ Len(sub.response.items) = Len(lines)
        /\ \A i \in 1..Len(lines) :
              /\ i <= Len(sub.response.items)
              /\ sub.response.items[i].name = lines[i].name
              /\ sub.response.items[i].quantity = lines[i].quantity
              /\ sub.response.items[i].price = lines[i].price
        /\ sub.response.totalPrice = SubmittedRow.totalPrice
        /\ sub.response.status = "pending"

(* ---------------- inbound messages (C32, C39) --------------------------- *)
\* C32: every inbound message makes the wrapper emit exactly two events:
\* first the one classified event of its topic (the exact-topic handler's
\* event if the topic is registered, even under a prefix; else robotMessage,
\* orderMessage or systemMessage by prefix; else unhandledMessage), then the
\* generic message event.
C32_MessageClassifiedOnce ==
    [][ LET Under(topic, seg) ==
                /\ Len(topic) >= 5
                /\ topic[1] = "/" /\ topic[2] = "cafe"
                /\ topic[3] = "/" /\ topic[4] = seg
                /\ topic[5] = "/"
            Classified(topic) ==
                CASE topic = topics.ROBOT_STATUS -> "robotStatus"
                  [] topic = topics.ROBOT_LOCATION -> "robotLocation"
                  [] topic = topics.ROBOT_FEEDBACK -> "robotFeedback"
                  [] topic = topics.DELIVERY_COMPLETE -> "deliveryComplete"
                  [] topic = topics.DELIVERY_STATUS -> "deliveryStatus"
                  [] topic = topics.EMERGENCY -> "emergency"
                  [] topic = topics.ROS_ODOM -> "rosOdometry"
                  [] topic = topics.ROS_RESULT -> "rosNavigationResult"
                  [] OTHER -> IF Under(topic, "robot") THEN "robotMessage"
                              ELSE IF Under(topic, "orders") THEN "orderMessage"
                              ELSE IF Under(topic, "system") THEN "systemMessage"
                              ELSE "unhandledMessage"
        IN
        \A message \in MessageInputs :
          ClientMessage(message) =>
              LET emits == SelectSeq(effects', LAMBDA e : e.op = "emit") IN
              /\ Len(emits) = 2
              /\ emits[1].what = Classified(message.topic)
              /\ emits[2].what = "message"
      ]_vars

\* a message on a registered topic that also lies under the robot prefix
C32_Witness ==
    /\ event = "message"
    /\ Len(effects) = 2
    /\ effects[1].op = "emit" /\ effects[1].what = "robotStatus"
    /\ effects[2].op = "emit" /\ effects[2].what = "message"

C31_DisconnectPublishesThenCloses ==
    [][ /\ (closing = "none" /\ closing' # "none" /\ client # 0 /\ isConnected) =>
              /\ closing' = "publishing"
              /\ effects' = <<[op |-> "publish", to |-> client, what |-> "offline",
                               retain |-> TRUE, ms |-> 0]>>
        /\ (\E k \in 1..Len(effects') : effects'[k].op = "end") =>
              (closing = "publishing" \/ effects' = effects)
        /\ (closing = "publishing" /\ closing' # "publishing") =>
              /\ closing' = "ended"
              /\ links'[client] \in {"ending", "ended"}
      ]_vars

\* C38: after disconnect() has closed the connection (it has ended the
\* client and the client has reported close) no reconnection timer is set,
\* no broker client is made and isConnected is never true again.
C38_NothingAfterCleanDisconnect ==
    [][ (closing = "ended" /\ \E c \in 1..Len(links) : links[c] = "ended") =>
          /\ timers' <= timers
          /\ Len(links') = Len(links)
          /\ ~isConnected'
      ]_vars

(* ----------------------- reconnection budget (C37) ---------------------- *)
\* C37: maxReconnectAttemptsReached is raised only when at least 10 init
\* calls have been made since the last connect event; the close of a
\* connected client takes one attempt from the budget; reconnectAttempts
\* stays within 0..10 and is 0 after every connect event.
C37_SignalAfterTenInitCalls ==
    [][ LET Signals(e) == \E k \in 1..Len(e) : /\ e[k].op = "emit"
                                                /\ e[k].what = "maxReconnectAttemptsReached"
        IN
        /\ (Signals(effects') /\ effects' # effects) => inits' >= maxReconnectAttempts
        /\ \A c \in 1..Len(links) :
              (links[c] = "connected" /\ links'[c] = "closed") =>
                  reconnectAttempts' = Min(reconnectAttempts + 1, maxReconnectAttempts)
        /\ reconnectAttempts' \in 0..maxReconnectAttempts
        /\ event' = "connect" => reconnectAttempts' = 0
      ]_vars

====
